---- MODULE Spec2Model ----
(***************************************************************************)
(* Vicsek 1.7.4 (src/src/vicsek.py): a group of self-propelled agents.     *)
(*                                                                         *)
(* Floats are modelled in fixed point: the float x is the integer x*Unit.  *)
(* Angles are in thousandths of a radian.  A numpy array is a sequence of  *)
(* such integers; an array of nan is a sequence of NaN.                    *)
(*                                                                         *)
(* Python objects live in `heap`: an Agent is an index of heap, and the    *)
(* lists Group.agents and Group.dead_agents hold such indices, so that     *)
(* aliasing, copies and removal from a list are what they are in Python.   *)
(***************************************************************************)
EXTENDS Integers, Sequences, FiniteSets, TLC

\* ------------------------------------------------------------------ numbers

\* The float 1.0.
Unit == 100

\* One radian, in the unit of angles.
Rad == 1000

\* math.pi and 2 * math.pi in the unit of angles.
Pi == 3142
TwoPi == 6283

\* A float nan (numpy: 0.0 / 0.0).
NaN == -(2 ^ 30)

Abs(x) == IF x < 0 THEN -x ELSE x

Sign(x) == IF x < 0 THEN -1 ELSE 1

Max2(a, b) == IF a >= b THEN a ELSE b

\* Float division a / b rounded to the nearest representable value.
Quot(a, b) == Sign(a) * Sign(b) * ((2 * Abs(a) + Abs(b)) \div (2 * Abs(b)))

\* Python's float floor division a // b and modulo a % b, for b > 0.
FloorDiv(a, b) == a \div b
PyMod(a, b) == a % b

RECURSIVE SqrtIter(_, _, _)
SqrtIter(x, lo, hi) ==
    IF hi - lo <= 1 THEN lo
    ELSE LET mid == (lo + hi) \div 2
         IN  IF mid * mid <= x THEN SqrtIter(x, mid, hi) ELSE SqrtIter(x, lo, mid)

\* math.sqrt on integers: the largest r with r * r <= x.
Isqrt(x) == IF x <= 0 THEN 0 ELSE SqrtIter(x, 0, 46341)

\* --------------------------------------------------------------- vectors

IsNaN(v) == \E i \in 1..Len(v) : v[i] = NaN

NaNVec(dim) == [i \in 1..dim |-> NaN]

Zeros(dim) == [i \in 1..dim |-> 0]

RECURSIVE SumSeq(_)
SumSeq(s) == IF s = << >> THEN 0 ELSE Head(s) + SumSeq(Tail(s))

VAdd(u, v) == IF IsNaN(u) \/ IsNaN(v) THEN NaNVec(Len(u))
              ELSE [i \in 1..Len(u) |-> u[i] + v[i]]

VSub(u, v) == IF IsNaN(u) \/ IsNaN(v) THEN NaNVec(Len(u))
              ELSE [i \in 1..Len(u) |-> u[i] - v[i]]

\* k * v for an integer k.
VTimes(k, v) == IF IsNaN(v) THEN v ELSE [i \in 1..Len(v) |-> k * v[i]]

\* v / k for an integer k > 0.
VOver(v, k) == IF IsNaN(v) THEN v ELSE [i \in 1..Len(v) |-> Quot(v[i], k)]

MaxAbs(v) == IF v = << >> THEN 0
             ELSE LET m == CHOOSE i \in 1..Len(v) : \A j \in 1..Len(v) : Abs(v[j]) <= Abs(v[i])
                  IN  Abs(v[m])

\* sum(vect ** 2), in Unit * Unit.
Norm2(v) == SumSeq([i \in 1..Len(v) |-> v[i] * v[i]])

\* norm(vect) = math.sqrt(sum(vect ** 2)); NaN for an array holding nan.
norm(v) == IF IsNaN(v) THEN NaN ELSE Isqrt(Norm2(v))

\* The resolution at which a direction is normalised.
Fine == 10000

\* v / norm(v): the unit vector of v's direction, NaN when norm(v) = 0
\* (numpy: 0.0 / 0.0 is nan, with a warning and no exception).  v is first
\* brought to a magnitude of about Fine, which leaves its direction as it is.
Normalised(v) ==
    IF IsNaN(v) \/ MaxAbs(v) = 0 THEN NaNVec(Len(v))
    ELSE LET m == MaxAbs(v)
             w == IF m >= Fine
                  THEN LET k == (m \div Fine) + 1 IN [i \in 1..Len(v) |-> Quot(v[i], k)]
                  ELSE LET k == Fine \div m IN [i \in 1..Len(v) |-> k * v[i]]
             n == Isqrt(Norm2(w))
         IN  [i \in 1..Len(v) |-> Quot(w[i] * Unit, n)]

\* arctan(t / Rad) for 0 <= t <= Rad, in the unit of angles.
AtanUnit(t) == Quot(785 * t, Rad) + Quot(273 * t * (Rad - t), Rad * Rad)

\* np.angle(x + 1j * y), in (-Pi, Pi]; np.angle(0) = 0.
Angle(x, y) ==
    IF x = 0 /\ y = 0 THEN 0
    ELSE LET ax == Abs(x)
             ay == Abs(y)
             a  == IF ay <= ax THEN AtanUnit(Quot(ay * Rad, ax))
                   ELSE Quot(Pi, 2) - AtanUnit(Quot(ax * Rad, ay))
         IN  IF x >= 0 THEN (IF y >= 0 THEN a ELSE -a)
             ELSE (IF y >= 0 THEN Pi - a ELSE a - Pi)

\* ----------------------------------------------------------------- Agent

\* The weights the interaction rule gives to a leader and to a wall, and
\* the share of a prey's velocity a predator adds.
LeaderWeight == 5
WallWeight == 100
ChaseShare == 4

\* Agent.__init__.  speed is the heading, velocity its magnitude.
Agent(position, speed, velocity, noise, sight, field_sight, agent_type, fear) ==
    [position     |-> position,
     speed        |-> speed,
     velocity     |-> velocity,
     noise        |-> noise,
     sight        |-> sight,
     field_sight  |-> Quot(field_sight, 2),
     agent_type   |-> agent_type,
     fear         |-> fear,
     max_velocity |-> IF agent_type = 1 THEN 2 * velocity ELSE velocity]

\* Agent.copy: a new Agent built by the constructor from self's attributes.
AgentCopy(a) ==
    Agent(a.position, a.speed, a.velocity, a.noise, a.sight, a.field_sight,
          a.agent_type, a.fear)

\* Agent.__sub__ squared: sum((self.position - agent.position) ** 2).
Dist2(a, b) == Norm2(VSub(a.position, b.position))

\* Agent.__sub__: the distance between two agents, NaN when a position is nan.
AgentDist(a, b) ==
    IF IsNaN(a.position) \/ IsNaN(b.position) THEN NaN ELSE Isqrt(Dist2(a, b))

\* (self - agent) <= d and (self - agent) < d for a float d >= 0: a
\* comparison with nan is False.
DistLe(a, b, d) ==
    /\ ~IsNaN(a.position)
    /\ ~IsNaN(b.position)
    /\ d >= 0
    /\ Dist2(a, b) <= d * d

\* Agent.__eq__: list(self.position) == list(agent.position), False when a
\* coordinate is nan.
AgentEq(a, b) ==
    /\ ~IsNaN(a.position)
    /\ ~IsNaN(b.position)
    /\ a.position = b.position

\* next_step, lines 181-207: what one neighbour adds to average_speed.
Contribution(self, agent, n) ==
    LET towards == VSub(agent.position, self.position)
        away    == VSub(self.position, agent.position)
        d       == AgentDist(self, agent)
        chase   == IF IsNaN(towards) THEN towards
                   ELSE [i \in 1..Len(towards) |-> Quot(towards[i] * Unit, d)]
    IN  CASE agent.agent_type = 0 ->
               IF self.agent_type # 1 THEN agent.speed ELSE chase
          [] agent.agent_type = 1 ->
               IF self.agent_type # 1
               THEN (IF IsNaN(away) THEN away
                     ELSE [i \in 1..Len(away) |-> Quot(self.fear * n * away[i], Unit)])
               ELSE agent.speed
          [] agent.agent_type = 2 ->
               IF self.agent_type # 1 THEN VTimes(LeaderWeight, agent.speed) ELSE chase
          [] agent.agent_type = 3 -> VTimes(n * WallWeight, away)
          [] OTHER -> Zeros(Len(self.position))

\* next_step, lines 183, 191, 204: what one neighbour adds to average_velocity.
VelocityShare(self, agent) ==
    (IF agent.agent_type # 3 THEN agent.velocity ELSE 0)
    + (IF agent.agent_type \in {0, 2} /\ self.agent_type = 1
       THEN Quot(agent.velocity, ChaseShare) ELSE 0)

\* 1 / (self - agent) with self - agent = 0.0 raises ZeroDivisionError.
ChaseFault(self, neighbours) ==
    /\ self.agent_type = 1
    /\ \E k \in 1..Len(neighbours) :
          /\ neighbours[k].agent_type \in {0, 2}
          /\ AgentDist(self, neighbours[k]) = 0

RECURSIVE SumContributions(_, _, _)
SumContributions(self, neighbours, k) ==
    IF k = 0 THEN Zeros(Len(self.position))
    ELSE VAdd(SumContributions(self, neighbours, k - 1),
              Contribution(self, neighbours[k], Len(neighbours)))

RECURSIVE SumVelocity(_, _, _)
SumVelocity(self, neighbours, k) ==
    IF k = 0 THEN 0
    ELSE SumVelocity(self, neighbours, k - 1) + VelocityShare(self, neighbours[k])

\* nb_neighbours: the neighbours that are no wall.
NbNeighbours(neighbours) ==
    Cardinality({k \in 1..Len(neighbours) : neighbours[k].agent_type # 3})

\* The noise added to the heading, lines 211-215, for the draws rnd of
\* np.random.random(dim): (noise_max - noise_min) * rnd + noise_min.
NoiseVec(self, rnd) ==
    [i \in 1..Len(rnd) |-> Quot(self.noise * rnd[i], Unit) - Quot(self.noise, 2)]

\* Lines 222-226: the position brought back into the domain, with
\* length //= 2 of line 176 (a comparison with nan is False).
Wrapped(p, length) ==
    LET half == FloorDiv(length, 2 * Unit) * Unit
    IN  [i \in 1..Len(p) |->
            IF p[i] = NaN THEN NaN
            ELSE IF p[i] > half THEN -half
            ELSE IF p[i] < -half THEN half
            ELSE p[i]]

\* The accumulator that would count the wall agents in the divisor.
average_speed_over_all(self, neighbours) ==
    [sum |-> SumContributions(self, neighbours, Len(neighbours)),
     nb  |-> Len(neighbours)]

\* average_speed after line 209, as the fraction sum / nb_neighbours.
average_speed(self, neighbours) ==
    [sum |-> SumContributions(self, neighbours, Len(neighbours)),
     nb  |-> NbNeighbours(neighbours)]

\* average_velocity after line 210.
average_velocity(self, neighbours) ==
    Quot(SumVelocity(self, neighbours, Len(neighbours)), NbNeighbours(neighbours))

\* The heading after a step: average_speed plus the noise, divided by its
\* norm (lines 209, 215, 216).  (sum / nb + noise) and (sum + nb * noise)
\* have the same direction, so the division by nb is left to the
\* normalisation and no digit of the average is lost before it.
NewSpeed(self, neighbours, rnd) ==
    LET avg == average_speed(self, neighbours)
    IN  Normalised(VAdd(avg.sum, VTimes(avg.nb, NoiseVec(self, rnd))))

\* The velocity a step without lines 218-220 would give: the average as it is.
NewVelocityUnclamped(self, neighbours) ==
    Quot(SumVelocity(self, neighbours, Len(neighbours)), NbNeighbours(neighbours))

\* The velocity after a step, lines 210 and 218-220.
NewVelocity(self, neighbours) ==
    IF average_velocity(self, neighbours) > self.max_velocity THEN self.max_velocity
    ELSE average_velocity(self, neighbours)

\* The position after a step, line 214 then lines 222-226: the heading and
\* the velocity used are those held before the step.
NewPosition(self, length, step) ==
    Wrapped(IF IsNaN(self.speed) \/ IsNaN(self.position) THEN NaNVec(Len(self.position))
            ELSE [i \in 1..Len(self.position) |->
                     self.position[i] + Quot(self.velocity * step * self.speed[i], Unit * Unit)],
            length)

\* The step that would recompute the heading and the velocity first and
\* integrate the position with the new ones.
next_step_update_first(self, neighbours, dim, length, step, rnd) ==
    IF ChaseFault(self, neighbours) \/ NbNeighbours(neighbours) = 0
    THEN [raised |-> "ZeroDivisionError", agent |-> self]
    ELSE LET updated == [self EXCEPT !.speed    = NewSpeed(self, neighbours, rnd),
                                     !.velocity = NewVelocity(self, neighbours)]
         IN  [raised |-> "none",
              agent  |-> [updated EXCEPT !.position = NewPosition(updated, length, step)]]

\* Agent.next_step: the agent after one step, or the exception raised
\* before anything of the agent is changed.
next_step(self, neighbours, dim, length, step, rnd) ==
    IF ChaseFault(self, neighbours) \/ NbNeighbours(neighbours) = 0
    THEN [raised |-> "ZeroDivisionError", agent |-> self]
    ELSE [raised |-> "none",
          agent  |-> [self EXCEPT !.position = NewPosition(self, length, step),
                                  !.speed    = NewSpeed(self, neighbours, rnd),
                                  !.velocity = NewVelocity(self, neighbours)]]

\* ----------------------------------------------------------------- Group

\* The kill distance is length / KillFraction.
KillFraction == 25

\* nb_agents / length ** dimension.  The quotient is far below the
\* resolution of the fixed point, so the float is kept as its operands.
Density(nb_agents, length, dimension) ==
    [nb |-> nb_agents, length |-> length, dimension |-> dimension]

\* Group.__init__ once the dimensions are checked.  agents is the list
\* (of heap indices) handed in: it is stored as it is, not copied.
\* recorded is not a field of the program: it keeps, for each entry of
\* dead_agents, the object whose copy the entry is.
Group(agents, length, dim) ==
    [agents      |-> agents,
     dead_agents |-> << >>,
     recorded    |-> << >>,
     nb_agents   |-> Len(agents),
     length      |-> length,
     dimension   |-> dim,
     density     |-> Density(Len(agents), length, dim)]

\* The checks of Group.__init__ without the test of the headings.
GroupInitChecksPositions(h, agents, dim) ==
    \/ dim \notin {2, 3}
    \/ \E k \in 1..Len(agents) : Len(h[agents[k]].position) # dim

\* The checks of Group.__init__, lines 255-261.
GroupInitRaises(h, agents, dim) ==
    \/ dim \notin {2, 3}
    \/ \E k \in 1..Len(agents) :
          Len(h[agents[k]].position) # dim \/ Len(h[agents[k]].speed) # dim

\* The check of Group.add_agent, line 295.
AddAgentRaises(G, agent) ==
    Len(agent.position) # G.dimension \/ Len(agent.speed) # G.dimension

\* The add_agent that would append the agent itself, the last object of h:
\* self.agents.append(agent).
AddAgentOpShared(h, G, agent) ==
    [heap  |-> h,
     group |-> [G EXCEPT !.agents = Append(@, Len(h)),
                         !.nb_agents = @ + 1,
                         !.density = Density(G.nb_agents + 1, G.length, G.dimension)]]

\* Group.add_agent once the dimension is checked: the copy of the agent is
\* the new object Len(h) + 1.
AddAgentOp(h, G, agent) ==
    [heap  |-> Append(h, AgentCopy(agent)),
     group |-> [G EXCEPT !.agents = Append(@, Len(h) + 1),
                         !.nb_agents = @ + 1,
                         !.density = Density(G.nb_agents + 1, G.length, G.dimension)]]

\* A wall agent of get_neighbours, lines 326-398.
WallAgent(position) ==
    Agent(position, Zeros(Len(position)), 0, 0, 0, 0, 3, 0)

\* wall_agents, lines 322-399, for the target position p.
WallAgents(p, length, dim) ==
    LET half == Quot(length, 2)
    IN  IF dim = 2
        THEN << WallAgent(<<half, p[2]>>),
                WallAgent(<<-half, p[2]>>),
                WallAgent(<<p[1], half>>),
                WallAgent(<<p[1], half>>) >>
        ELSE << WallAgent(<<half, p[2], p[3]>>),
                WallAgent(<<-half, p[2], p[3]>>),
                WallAgent(<<p[1], -half, p[3]>>),
                WallAgent(<<p[1], half, p[3]>>),
                WallAgent(<<p[1], p[2], -half>>),
                WallAgent(<<p[1], p[2], half>>) >>

\* The agents a query of the double-buffered variant would read: those of
\* the start of the sweep.
BufferedView(now, start) == start

\* The agents a query reads during a sweep of run: the objects of the list
\* as they are now (lines 590-594 hand the live list to get_neighbours).
SweepView(now, start) == now

\* total_agents, lines 402-405: each candidate with the object it is (ref,
\* 0 for a wall agent made by this call) and its attributes.
TotalAgents(h, G, target, check_wall) ==
    [k \in 1..Len(G.agents) |-> [ref |-> G.agents[k], a |-> h[G.agents[k]]]]
    \o (IF check_wall
        THEN LET w == WallAgents(target.position, G.length, G.dimension)
             IN  [k \in 1..Len(w) |-> [ref |-> 0, a |-> w[k]]]
        ELSE << >>)

\* (targeted_agent - agent) < self.length / 25, line 413.
WithinKill(target, agent, length) ==
    /\ ~IsNaN(target.position)
    /\ ~IsNaN(agent.position)
    /\ Dist2(target, agent) <= (length * length - 1) \div (KillFraction * KillFraction)

\* (targeted_agent - agent) <= self.length / 25, line 425.
WallFelt(target, agent, length) ==
    /\ ~IsNaN(target.position)
    /\ ~IsNaN(agent.position)
    /\ Dist2(target, agent) <= (length * length) \div (KillFraction * KillFraction)

\* Line 420: np.angle(speed) % 2 * math.pi, the modulo taken by 2 and the
\* result multiplied by pi.
AngleSpd(target) ==
    Quot(PyMod(Angle(target.speed[1], target.speed[2]), 2 * Rad) * Pi, Rad)

\* Line 421: np.angle(pos) % (2 * math.pi).
AnglePos(target, agent) ==
    LET pos == VSub(agent.position, target.position)
    IN  PyMod(Angle(pos[1], pos[2]), TwoPi)

\* Line 423: abs(angle_spd - angle_pos) <= targeted_agent.field_sight.
InField(target, agent) ==
    /\ ~IsNaN(target.speed)
    /\ ~IsNaN(target.position)
    /\ ~IsNaN(agent.position)
    /\ Abs(AngleSpd(target) - AnglePos(target, agent)) <= target.field_sight

\* Lines 418-428: whether the scan keeps the candidate as a neighbour.
Kept(target, agent, dmin, length) ==
    IF ~AgentEq(agent, target)
    THEN IF agent.agent_type # 3
         THEN DistLe(target, agent, dmin) /\ (agent.agent_type = 1 \/ InField(target, agent))
         ELSE WallFelt(target, agent, length)
    ELSE TRUE

\* The test of line 413 without its first conjunct: any target would
\* record the candidates close to it as dead.
KilledByAnyTarget(target, agent, index, nb, length) ==
    /\ agent.agent_type \notin {1, 3}
    /\ WithinKill(target, agent, length)
    /\ index < nb

\* Line 413: whether the scan records the candidate at (0-based) index as
\* dead, nb being self.nb_agents at that moment of the scan.
Killed(target, agent, index, nb, length) ==
    /\ target.agent_type = 1
    /\ agent.agent_type \notin {1, 3}
    /\ WithinKill(target, agent, length)
    /\ index < nb

\* The scan that would leave self.nb_agents as it is when it records a
\* dead agent.
RECURSIVE ScanUncounted(_, _, _, _, _, _)
ScanUncounted(total, k, target, dmin, length, acc) ==
    IF k > Len(total) THEN acc
    ELSE LET c    == total[k]
             kill == Killed(target, c.a, k - 1, acc.nb_agents - Len(acc.victims), length)
             keep == Kept(target, c.a, dmin, length)
         IN  ScanUncounted(total, k + 1, target, dmin, length,
                  [nb_agents  |-> acc.nb_agents,
                   snapshots  |-> IF kill THEN Append(acc.snapshots, AgentCopy(c.a))
                                  ELSE acc.snapshots,
                   victims    |-> IF kill THEN Append(acc.victims, c.ref) ELSE acc.victims,
                   dead_index |-> IF kill THEN Append(acc.dead_index, k - 1)
                                  ELSE acc.dead_index,
                   out        |-> IF keep THEN Append(acc.out, c) ELSE acc.out])

\* The scan of lines 411-428 over total[k..]: nb_agents, the snapshots
\* appended to dead_agents, dead_index and the neighbours kept.
RECURSIVE Scan(_, _, _, _, _, _)
Scan(total, k, target, dmin, length, acc) ==
    IF k > Len(total) THEN acc
    ELSE LET c    == total[k]
             kill == Killed(target, c.a, k - 1, acc.nb_agents, length)
             keep == Kept(target, c.a, dmin, length)
         IN  Scan(total, k + 1, target, dmin, length,
                  [nb_agents  |-> IF kill THEN acc.nb_agents - 1 ELSE acc.nb_agents,
                   snapshots  |-> IF kill THEN Append(acc.snapshots, AgentCopy(c.a))
                                  ELSE acc.snapshots,
                   victims    |-> IF kill THEN Append(acc.victims, c.ref) ELSE acc.victims,
                   dead_index |-> IF kill THEN Append(acc.dead_index, k - 1)
                                  ELSE acc.dead_index,
                   out        |-> IF keep THEN Append(acc.out, c) ELSE acc.out])

\* list.pop(index) for a 0-based index within the list.
Pop(list, index) ==
    [k \in 1..(Len(list) - 1) |-> IF k <= index THEN list[k] ELSE list[k + 1]]

\* The removal that would stop after the first index of dead_index.
PopFirst(list, dead_index) ==
    IF dead_index = << >> THEN [agents |-> list, raised |-> "none"]
    ELSE [agents |-> Pop(list, Head(dead_index)), raised |-> "none"]

\* Lines 430-431: self.agents.pop(index) for each index of dead_index in
\* turn, on the list as the earlier pops left it; IndexError when an index
\* is out of range.
RECURSIVE PopEach(_, _)
PopEach(list, dead_index) ==
    IF dead_index = << >> THEN [agents |-> list, raised |-> "none"]
    ELSE IF Head(dead_index) >= Len(list) THEN [agents |-> list, raised |-> "IndexError"]
    ELSE PopEach(Pop(list, Head(dead_index)), Tail(dead_index))

\* Group.get_neighbours(targeted_agent, dmin, check_field, check_wall) on
\* the heap h, the agents' attributes read from view (which is h): the
\* neighbours returned (out), the group and the heap as the call leaves
\* them, and the exception it raised.
get_neighbours(h, view, G, target, dmin, check_field, check_wall) ==
    LET total == TotalAgents(view, G, target, check_wall)
    IN  IF ~check_field \/ G.dimension = 3
        THEN [out     |-> SelectSeq(total, LAMBDA c : DistLe(target, c.a, dmin)),
              group   |-> G,
              heap    |-> h,
              victims |-> << >>,
              raised  |-> "none"]
        ELSE LET acc == Scan(total, 1, target, dmin, G.length,
                             [nb_agents |-> G.nb_agents, snapshots |-> << >>,
                              victims |-> << >>, dead_index |-> << >>, out |-> << >>])
                 pop == PopEach(G.agents, acc.dead_index)
             IN  [out     |-> acc.out,
                  group   |-> [G EXCEPT
                                 !.agents = pop.agents,
                                 !.nb_agents = acc.nb_agents,
                                 !.dead_agents =
                                     @ \o [k \in 1..Len(acc.snapshots) |-> Len(h) + k],
                                 !.recorded = @ \o acc.victims],
                  heap    |-> h \o acc.snapshots,
                  victims |-> acc.victims,
                  raised  |-> pop.raised]

\* The copy that would hand the agents themselves to the new group:
\* Group(self.agents[:], self.length, self.dimension).
GroupCopyShallow(h, G) ==
    [heap |-> h, group |-> Group(G.agents, G.length, G.dimension)]

\* Group.copy: a new group of copies of the agents, the objects
\* Len(h) + 1 .. Len(h) + len(agents).
GroupCopy(h, G) ==
    [heap  |-> h \o [k \in 1..Len(G.agents) |-> AgentCopy(h[G.agents[k]])],
     group |-> Group([k \in 1..Len(G.agents) |-> Len(h) + k], G.length, G.dimension)]

\* Group.get_agents_arguments, lines 435-444: two arrays of nb_agents rows
\* of zeros, row index filled for each agent of the list; IndexError when
\* the list is longer than nb_agents.
get_agents_arguments(h, G) ==
    IF Len(G.agents) > G.nb_agents
    THEN [raised |-> "IndexError", positions |-> << >>, speeds |-> << >>]
    ELSE [raised    |-> "none",
          positions |-> [k \in 1..G.nb_agents |->
                            IF k <= Len(G.agents) THEN h[G.agents[k]].position
                            ELSE Zeros(G.dimension)],
          speeds    |-> [k \in 1..G.nb_agents |->
                            IF k <= Len(G.agents)
                            THEN (IF IsNaN(h[G.agents[k]].speed) THEN h[G.agents[k]].speed
                                  ELSE VTimes(h[G.agents[k]].velocity, h[G.agents[k]].speed))
                            ELSE Zeros(G.dimension)]]

\* agent.velocity * agent.speed of order_parameter, line 601, kept to a
\* tenth of the resolution of a heading.
AgentSpeed(a) ==
    IF IsNaN(a.speed) THEN a.speed
    ELSE [i \in 1..Len(a.speed) |-> Quot(a.velocity * a.speed[i], 10)]

\* The loop of order_parameter, lines 598-604, over the first k agents:
\* speed, the sum of the agents' velocity vectors, and velocity, the sum of
\* their norms.
RECURSIVE OrderSums(_, _, _)
OrderSums(h, G, k) ==
    IF k = 0 THEN [speed |-> Zeros(G.dimension), velocity |-> 0]
    ELSE LET s == OrderSums(h, G, k - 1)
             v == AgentSpeed(h[G.agents[k]])
         IN  [speed    |-> VAdd(s.speed, v),
              velocity |-> IF s.velocity = NaN \/ IsNaN(v) THEN NaN
                           ELSE s.velocity + norm(v)]

\* Group.order_parameter: (1 / velocity) * norm(speed), ZeroDivisionError
\* when velocity is 0, nan when a heading is nan.
order_parameter(h, G) ==
    LET s == OrderSums(h, G, Len(G.agents))
    IN  IF s.velocity = 0 THEN [raised |-> "ZeroDivisionError", value |-> 0]
        ELSE IF s.velocity = NaN \/ IsNaN(s.speed) THEN [raised |-> "none", value |-> NaN]
        ELSE [raised |-> "none", value |-> Quot(norm(s.speed) * Unit, s.velocity)]

\* ------------------------------------------------------------ generators

\* agent_generator for the draws d of its random numbers: the position,
\* the raw speed vector (of norm >= 1e-3, the loop of lines 683-686 draws
\* until it is), noise, sight, field_sight and fear.  The agent is built
\* with velocity 0, given its heading and velocity, and returned as a copy.
agent_generator(d, agent_type) ==
    LET built == Agent(d.position, Zeros(Len(d.position)), 0, d.noise, d.sight,
                       d.field_sight, agent_type, d.fear)
        velocity == norm(d.raw)
    IN  AgentCopy([built EXCEPT !.speed = Normalised(d.raw), !.velocity = velocity])

\* The draws the model takes for the agents of group_generator and for
\* the agents handed to add_agent, in two dimensions.
DrawEast   == [position |-> <<0, 0>>,   raw |-> <<100, 0>>,  noise |-> 0,
               sight |-> 500, field_sight |-> 1571, fear |-> 100]
DrawNorth  == [position |-> <<10, 0>>,  raw |-> <<0, 200>>,  noise |-> 0,
               sight |-> 500, field_sight |-> 1571, fear |-> 100]
DrawWest   == [position |-> <<20, 0>>,  raw |-> <<-100, 0>>, noise |-> 0,
               sight |-> 500, field_sight |-> 1571, fear |-> 100]
DrawHunter == [position |-> <<10, 10>>, raw |-> <<0, 100>>,  noise |-> 0,
               sight |-> 500, field_sight |-> 1571, fear |-> 100]
DrawLeader == [position |-> <<0, 10>>,  raw |-> <<-100, 0>>, noise |-> 0,
               sight |-> 500, field_sight |-> 1571, fear |-> 100]

\* The draws of group_generator(2, noise=(0, 0), fear=(0, 0)), the
\* population of predation() in vicsek_stat.py: two agents on one line,
\* heading towards each other.
DrawOncoming == [position |-> <<100, 0>>, raw |-> <<-100, 0>>, noise |-> 0,
                 sight |-> 500, field_sight |-> 1571, fear |-> 0]
DrawCalm     == [position |-> <<0, 0>>,   raw |-> <<100, 0>>,  noise |-> 0,
                 sight |-> 500, field_sight |-> 1571, fear |-> 0]

\* An agent one unit east of DrawEast with the same heading, twice as fast.
DrawPeer     == [position |-> <<100, 0>>, raw |-> <<200, 0>>,  noise |-> 0,
                 sight |-> 500, field_sight |-> 1571, fear |-> 100]

\* An agent three units from the face x = +length / 2 of a space of
\* length 50, heading towards it.
DrawEdge     == [position |-> <<2200, 0>>, raw |-> <<100, 0>>, noise |-> 0,
                 sight |-> 500, field_sight |-> 1571, fear |-> 100]

\* A draw in dim dimensions: the third coordinate is 0.
InDim(d, dim) ==
    IF dim = 2 THEN d
    ELSE [d EXCEPT !.position = Append(d.position, 0), !.raw = Append(d.raw, 0)]

\* A draw with a position of pd coordinates and a heading of sd coordinates,
\* as Agent(position, speed, ...) takes them: the constructor checks neither.
InDims(d, pd, sd) ==
    [d EXCEPT !.position = IF pd = 2 THEN d.position ELSE Append(d.position, 0),
              !.raw      = IF sd = 2 THEN d.raw ELSE Append(d.raw, 0)]

\* The draws of the agents group_generator builds (all of kind 0), in the
\* order it builds them.
GenDraws == << DrawEast, DrawNorth >>

FearlessDraws == << DrawOncoming, DrawCalm >>

\* The lists of draws group_generator(n, dim) takes in the model.
GenDrawLists(n, dim) ==
    IF n = 2 /\ dim = 2 THEN {GenDraws, FearlessDraws} ELSE {GenDraws}

\* Two agents one unit apart with the same heading.
AlignedDraws == << DrawEast, DrawPeer >>

\* One agent near a face of the space.
EdgeDraws == << DrawEdge >>

\* The lists of draws group_generator(n, dim) takes under SpecCalls.
CallsDrawLists(n, dim) ==
    IF n = 2 /\ dim = 2 THEN {GenDraws, AlignedDraws}
    ELSE IF n = 1 THEN {GenDraws, EdgeDraws}
    ELSE {GenDraws}

\* The agents handed to add_agent: a draw and a kind.
AddDraws == { <<DrawHunter, 1>>, <<DrawLeader, 2>>, <<DrawWest, 0>> }

\* The values np.random.random takes in the model, in [0, 1).
Rnd == {0, 99}

\* The arguments of run: steps, check_field, check_wall, step.
RunChoices == { <<1, TRUE, TRUE, 50>>, <<2, TRUE, FALSE, 50>>,
                <<1, FALSE, FALSE, 50>>, <<2, FALSE, TRUE, 50>>,
                <<1, FALSE, FALSE, 3000>> }

\* The arguments of group_generator: nb_agents and dim.
GenChoices == { <<0, 2>>, <<1, 2>>, <<2, 2>>, <<2, 3>> }

\* The lengths of the position and of the heading of an agent.
AgentDims == { <<2, 2>>, <<2, 3>>, <<3, 3>> }

\* The arguments of Group(agents, length, dim): dim and, for each agent of
\* the list, the lengths of its position and of its heading.
GroupChoices == { <<1, << >> >>,
                  <<4, << <<3, 3>> >> >>,
                  <<2, << <<2, 2>> >> >>,
                  <<3, << >> >>,
                  <<2, << <<2, 2>>, <<3, 3>> >> >>,
                  <<2, << <<2, 3>> >> >>,
                  <<3, << <<2, 3>> >> >> }

\* The characteristic lengths of the space.
Lengths == {5000}

\* The assignments group[i].noise, group[i].fear = ... of the scripts, and
\* the indices i they are made at.
AttrChoices == { <<100, 0>> }
AttrIndices == {1}

\* The noise and fear given to an agent after it was handed to add_agent.
ArgChoices == { <<150, 0>> }

\* ---------------------------------------------------------------- bounds

\* Agents a group is given over its life (construction and add_agent).
MaxAgents == 4

\* Groups alive at once (the first one and its copies).
MaxGroups == 3

\* Calls made after the construction of the first group: add_agent, Group,
\* copy, order_parameter, run and attribute assignments.
MaxCalls == 3

\* ----------------------------------------------------------------- state

VARIABLES
    heap,      \* the Agent objects, by index
    groups,    \* the Group objects, by index
    pc,        \* "idle", or "run" inside a call of Group.run
    run,       \* the call of run in progress: its group, arguments and loops
    raised,    \* the exception the last operation raised, or "none"
    created,   \* per group: agents given at construction and by add_agent
    calls,     \* calls made so far
    query,     \* the last call of get_neighbours
    sweep,     \* the sweep in progress: its start, the agents processed
    lastop     \* the last operation

vars == <<heap, groups, pc, run, raised, created, calls, query, sweep, lastop>>

NoRun == [g |-> 0, steps |-> 0, it |-> 0, check_field |-> FALSE,
          check_wall |-> FALSE, step |-> 0]

NoQuery == [valid |-> FALSE, g |-> 0, target |-> 0, predator |-> FALSE,
            before |-> << >>, after |-> << >>, victims |-> << >>,
            snapshots |-> << >>, due |-> {}, out |-> << >>,
            check_wall |-> FALSE, walls |-> << >>]

NoSweep == [start |-> << >>, upd |-> << >>, done |-> << >>, seen |-> << >>]

NoOp == [op |-> "none", g |-> 0, src |-> 0, dst |-> 0, arg |-> 0, stored |-> 0,
         value |-> 0, call |-> "none", dim |-> 0, dims |-> << >>,
         rows |-> << >>]

\* group_generator(nb_agents, ...): the agents are the objects 1..nb_agents.
Init ==
    \E c \in GenChoices, length \in Lengths :
      \E draws \in GenDrawLists(c[1], c[2]) :
      LET n == c[1]
          dim == c[2]
      IN        /\ heap = [k \in 1..n |-> agent_generator(InDim(draws[k], dim), 0)]
        /\ groups = << Group([k \in 1..n |-> k], length, dim) >>
        /\ pc = "idle"
        /\ run = NoRun
        /\ raised = "none"
        /\ created = << n >>
        /\ calls = 0
        /\ query = NoQuery
        /\ sweep = NoSweep
        /\ lastop = NoOp

\* --------------------------------------------------------------- actions

\* A call can be made: none is in progress.
Idle == pc = "idle" /\ calls < MaxCalls

\* grp.add_agent(agent) with an agent that passes the check of line 295.
\* The argument is the object Len(heap) + 1, its copy in the group the
\* object Len(heap) + 2.
AddAgent(g, d, agent_type, x) ==
    LET G   == groups[g]
        arg == agent_generator(InDims(d, x[1], x[2]), agent_type)
        r   == AddAgentOp(Append(heap, arg), G, arg)
    IN  /\ Idle
        /\ created[g] < MaxAgents
        /\ ~AddAgentRaises(G, arg)
        /\ heap' = r.heap
        /\ groups' = [groups EXCEPT ![g] = r.group]
        /\ created' = [created EXCEPT ![g] = @ + 1]
        /\ raised' = "none"
        /\ lastop' = [NoOp EXCEPT !.op = "add_agent", !.g = g,
                                  !.arg = Len(heap) + 1, !.stored = Len(heap) + 2,
                                  !.call = "add_agent", !.dim = G.dimension,
                                  !.dims = << x >>]
        /\ query' = NoQuery
        /\ calls' = calls + 1
        /\ UNCHANGED <<pc, run, sweep>>

\* grp.add_agent(agent) with an agent that fails the check of line 295:
\* DimensionError, and nothing of the group is changed.
AddAgentRejected(g, d, x) ==
    LET G   == groups[g]
        arg == agent_generator(InDims(d, x[1], x[2]), 0)
    IN  /\ Idle
        /\ AddAgentRaises(G, arg)
        /\ raised' = "DimensionError"
        /\ lastop' = [NoOp EXCEPT !.call = "add_agent", !.dim = G.dimension,
                                  !.dims = << x >>]
        /\ query' = NoQuery
        /\ calls' = calls + 1
        /\ UNCHANGED <<heap, groups, pc, run, created, sweep>>

\* agent.noise, agent.fear = c[1], c[2] and agent.position[:] = 0 on the
\* agent that was just handed to add_agent: the caller still holds it.
AssignArgument(c) ==
    /\ Idle
    /\ lastop.op = "add_agent"
    /\ heap' = [heap EXCEPT ![lastop.arg].noise = c[1],
                            ![lastop.arg].fear = c[2],
                            ![lastop.arg].position = Zeros(Len(@))]
    /\ calls' = calls + 1
    /\ raised' = "none"
    /\ lastop' = [NoOp EXCEPT !.op = "assign_argument", !.arg = lastop.arg]
    /\ query' = NoQuery
    /\ UNCHANGED <<groups, pc, run, created, sweep>>

\* grp.get_agents_arguments(): the arrays returned, or the exception.
GetAgentsArguments(g) ==
    LET r == get_agents_arguments(heap, groups[g])
    IN  /\ Idle
        /\ raised' = r.raised
        /\ lastop' = [NoOp EXCEPT !.op = "get_agents_arguments", !.g = g,
                                  !.rows = << r.positions, r.speeds >>]
        /\ query' = NoQuery
        /\ calls' = calls + 1
        /\ UNCHANGED <<heap, groups, pc, run, created, sweep>>

\* Group(agents, length, dim) on a new list of new agents, the objects
\* Len(heap) + 1, ...: DimensionError when a check of lines 255-261 fails,
\* otherwise the group Len(groups) + 1.
NewGroup(c, length) ==
    LET dim    == c[1]
        n      == Len(c[2])
        new    == [k \in 1..n |->
                      agent_generator(InDims(GenDraws[k], c[2][k][1], c[2][k][2]), 0)]
        h      == heap \o new
        agents == [k \in 1..n |-> Len(heap) + k]
    IN  /\ Idle
        /\ IF GroupInitRaises(h, agents, dim)
           THEN /\ raised' = "DimensionError"
                /\ lastop' = [NoOp EXCEPT !.call = "Group", !.dim = dim, !.dims = c[2]]
                /\ UNCHANGED <<heap, groups, created>>
           ELSE /\ Len(groups) < MaxGroups
                /\ heap' = h
                /\ groups' = Append(groups, Group(agents, length, dim))
                /\ created' = Append(created, n)
                /\ raised' = "none"
                /\ lastop' = [NoOp EXCEPT !.op = "Group", !.dst = Len(groups) + 1,
                                          !.call = "Group", !.dim = dim, !.dims = c[2]]
        /\ query' = NoQuery
        /\ calls' = calls + 1
        /\ UNCHANGED <<pc, run, sweep>>

\* grp.copy(): the copy is the group Len(groups) + 1.
Copy(g) ==
    LET r == GroupCopy(heap, groups[g])
    IN  /\ Idle
        /\ Len(groups) < MaxGroups
        /\ heap' = r.heap
        /\ groups' = Append(groups, r.group)
        /\ created' = Append(created, Len(r.group.agents))
        /\ raised' = "none"
        /\ lastop' = [NoOp EXCEPT !.op = "copy", !.src = g, !.dst = Len(groups) + 1]
        /\ query' = NoQuery
        /\ calls' = calls + 1
        /\ UNCHANGED <<pc, run, sweep>>

\* grp[i].noise, grp[i].fear = c[1], c[2] (vicsek_stat.py, lines 147-150).
Assign(g, i, c) ==
    /\ Idle
    /\ i \in 1..Len(groups[g].agents)
    /\ heap' = [heap EXCEPT ![groups[g].agents[i]].noise = c[1],
                            ![groups[g].agents[i]].fear = c[2]]
    /\ calls' = calls + 1
    /\ raised' = "none"
    /\ lastop' = [NoOp EXCEPT !.g = g]
    /\ query' = NoQuery
    /\ UNCHANGED <<groups, pc, run, created, sweep>>

\* grp.order_parameter(): the value returned, or the exception raised.
OrderParameter(g) ==
    LET r == order_parameter(heap, groups[g])
    IN  /\ Idle
        /\ raised' = r.raised
        /\ lastop' = [NoOp EXCEPT !.op = "order_parameter", !.g = g, !.value = r.value]
        /\ query' = NoQuery
        /\ calls' = calls + 1
        /\ UNCHANGED <<heap, groups, pc, run, created, sweep>>

NewSweep == [start |-> heap, upd |-> heap, done |-> << >>, seen |-> << >>]

\* grp.run(steps, check_field, check_wall, step) is entered: the first
\* sweep starts, its iterator before the first agent of the list.
RunStart(g, steps, check_field, check_wall, step) ==
    /\ Idle
    /\ pc' = "run"
    /\ run' = [g |-> g, steps |-> steps, it |-> 0, check_field |-> check_field,
               check_wall |-> check_wall, step |-> step]
    /\ calls' = calls + 1
    /\ sweep' = NewSweep
    /\ raised' = "none"
    /\ lastop' = [NoOp EXCEPT !.g = g]
    /\ query' = NoQuery
    /\ UNCHANGED <<heap, groups, created>>

\* The draws of np.random.random(dim) that matter to the agent.
RndDraws(agent, dim) ==
    IF agent.noise = 0 THEN {Zeros(dim)}
    ELSE {[i \in 1..dim |-> r] : r \in Rnd} \cup {[i \in 1..dim |-> IF i = 1 THEN 99 ELSE 0]}

\* The agents of the list within the kill distance of a predator target
\* that are neither predators nor walls.
Due(h, G, target) ==
    IF target.agent_type # 1 THEN {}
    ELSE {G.agents[k] : k \in {j \in 1..Len(G.agents) :
              /\ h[G.agents[j]].agent_type \notin {1, 3}
              /\ WithinKill(target, h[G.agents[j]], G.length)}}

\* The positions of the wall agents among the candidates of a query.
WallCandidates(h, G, target, check_wall) ==
    LET w == SelectSeq(TotalAgents(h, G, target, check_wall),
                       LAMBDA c : c.a.agent_type = 3)
    IN  [k \in 1..Len(w) |-> w[k].a.position]

\* One turn of the loop of lines 590-594: the list iterator yields the
\* agent at its index and moves on; the agent's neighbours are looked up
\* (which may remove agents from the list) and the agent takes its step.
\* An exception leaves run, with what was done so far left done.
RunAgent ==
    /\ pc = "run"
    /\ run.it < Len(groups[run.g].agents)
    /\ LET G      == groups[run.g]
           tid    == G.agents[run.it + 1]
           target == heap[tid]
       IN  IF target.agent_type = 3
           THEN /\ run' = [run EXCEPT !.it = @ + 1]
                /\ UNCHANGED <<heap, groups, pc, raised, query, sweep>>
           ELSE \E q \in {get_neighbours(heap, SweepView(heap, sweep.start), G, target,
                                          target.sight, run.check_field, run.check_wall)},
                   rnd \in RndDraws(target, G.dimension) :
                \E ns \in {next_step(target, [k \in 1..Len(q.out) |-> q.out[k].a],
                                      G.dimension, G.length, run.step, rnd)} :
                  LET fail == IF q.raised # "none" THEN q.raised ELSE ns.raised
                  IN  /\ groups' = [groups EXCEPT ![run.g] = q.group]
                      /\ heap' = IF fail # "none" THEN q.heap
                                 ELSE [q.heap EXCEPT ![tid] = ns.agent]
                      /\ raised' = fail
                      /\ pc' = IF fail # "none" THEN "idle" ELSE "run"
                      /\ run' = IF fail # "none" THEN NoRun ELSE [run EXCEPT !.it = @ + 1]
                      /\ query' = [valid     |-> TRUE,
                                   g         |-> run.g,
                                   target    |-> tid,
                                   predator  |-> target.agent_type = 1,
                                   before    |-> G.agents,
                                   after     |-> q.group.agents,
                                   victims   |-> q.victims,
                                   snapshots |-> SubSeq(q.group.dead_agents,
                                                        Len(G.dead_agents) + 1,
                                                        Len(q.group.dead_agents)),
                                   due       |-> Due(heap, G, target),
                                   out       |-> [k \in 1..Len(q.out) |-> q.out[k].ref],
                                   check_wall |-> run.check_wall,
                                   walls     |-> WallCandidates(heap, G, target,
                                                                run.check_wall)]
                      /\ sweep' = IF fail # "none" THEN NoSweep
                                  ELSE [sweep EXCEPT !.upd[tid] = ns.agent,
                                                     !.done = Append(@, tid),
                                                     !.seen = q.out]
    /\ lastop' = [NoOp EXCEPT !.g = run.g]
    /\ UNCHANGED <<created, calls>>

\* The list iterator is exhausted: the sweep ends, and either the next
\* one starts or run returns.
RunSweepEnd ==
    /\ pc = "run"
    /\ run.it >= Len(groups[run.g].agents)
    /\ IF run.steps > 1
       THEN /\ run' = [run EXCEPT !.steps = @ - 1, !.it = 0]
            /\ sweep' = NewSweep
            /\ pc' = "run"
       ELSE /\ run' = NoRun
            /\ sweep' = NoSweep
            /\ pc' = "idle"
    /\ lastop' = [NoOp EXCEPT !.g = run.g]
    /\ query' = NoQuery
    /\ UNCHANGED <<heap, groups, raised, created, calls>>

Next ==
    \/ \E g \in 1..Len(groups), a \in AddDraws, x \in AgentDims :
          AddAgent(g, a[1], a[2], x)
    \/ \E g \in 1..Len(groups), x \in AgentDims : AddAgentRejected(g, DrawEast, x)
    \/ \E c \in GroupChoices, length \in Lengths : NewGroup(c, length)
    \/ \E g \in 1..Len(groups) : Copy(g)
    \/ \E g \in 1..Len(groups), i \in AttrIndices, c \in AttrChoices : Assign(g, i, c)
    \/ \E g \in 1..Len(groups) : OrderParameter(g)
    \/ \E g \in 1..Len(groups), c \in RunChoices : RunStart(g, c[1], c[2], c[3], c[4])
    \/ RunAgent
    \/ RunSweepEnd

Spec == Init /\ [][Next]_vars

\* The calls of a simulation script on its groups: add_agent, changes of
\* the agent handed to it, copy and run.
NextCalls ==
    \/ \E g \in 1..Len(groups), a \in AddDraws, x \in AgentDims :
          AddAgent(g, a[1], a[2], x)
    \/ \E g \in 1..Len(groups), x \in AgentDims : AddAgentRejected(g, DrawEast, x)
    \/ \E c \in ArgChoices : AssignArgument(c)
    \/ \E g \in 1..Len(groups) : Copy(g)
    \/ \E g \in 1..Len(groups) : GetAgentsArguments(g)
    \/ \E g \in 1..Len(groups), c \in RunChoices : RunStart(g, c[1], c[2], c[3], c[4])
    \/ RunAgent
    \/ RunSweepEnd

\* group_generator(nb_agents, ...) with the draws of CallsDrawLists.
InitCalls ==
    \E c \in GenChoices, length \in Lengths :
      \E draws \in CallsDrawLists(c[1], c[2]) :
        /\ heap = [k \in 1..c[1] |-> agent_generator(InDim(draws[k], c[2]), 0)]
        /\ groups = << Group([k \in 1..c[1] |-> k], length, c[2]) >>
        /\ pc = "idle"
        /\ run = NoRun
        /\ raised = "none"
        /\ created = << c[1] >>
        /\ calls = 0
        /\ query = NoQuery
        /\ sweep = NoSweep
        /\ lastop = NoOp

SpecCalls == InitCalls /\ [][NextCalls]_vars

\* ------------------------------------------- viscek.py (version 1.6.0)

\* Agent.__init__ of viscek.py, lines 27-43: no fear, no max_velocity, and
\* both noise and field_sight are halved.
ViscekAgent(position, speed, velocity, noise, sight, field_sight, agent_type) ==
    [position    |-> position,
     speed       |-> speed,
     velocity    |-> velocity,
     noise       |-> Quot(noise, 2),
     sight       |-> sight,
     field_sight |-> Quot(field_sight, 2),
     agent_type  |-> agent_type]

\* Agent.copy of viscek.py, lines 67-69.
ViscekAgentCopy(a) ==
    ViscekAgent(a.position, a.speed, a.velocity, a.noise, a.sight, a.field_sight,
                a.agent_type)

\* The agent group_generator of viscek.py builds from the draws d, lines
\* 279-296: built with a zero heading, then given its heading and velocity.
ViscekGenerated(d) ==
    [ViscekAgent(d.position, Zeros(Len(d.position)), 0, d.noise, d.sight,
                 d.field_sight, 0)
       EXCEPT !.speed = Normalised(d.raw), !.velocity = norm(d.raw)]

\* The checks of Group.__init__ of viscek.py, lines 114-120.
ViscekGroupInitRaises(h, agents, dim) ==
    \/ dim \notin {2, 3}
    \/ \E k \in 1..Len(agents) :
          Len(h[agents[k]].position) # dim \/ Len(h[agents[k]].speed) # dim

\* Group.__init__ of viscek.py once the checks passed, lines 110-122: the
\* group has no dead_agents.
ViscekGroup(agents, length, dim) ==
    [agents    |-> agents,
     nb_agents |-> Len(agents),
     length    |-> length,
     dimension |-> dim,
     density   |-> Density(Len(agents), length, dim)]

\* Group.copy of viscek.py, line 133:
\* Group([agent.copy() for agent in self.agents], self.dimension).  The
\* second positional parameter of Group.__init__ is length, so the copy is
\* built with length = self.dimension and the default dim = 2.
ViscekGroupCopy(h, G) ==
    LET copies == [k \in 1..Len(G.agents) |-> ViscekAgentCopy(h[G.agents[k]])]
        ids    == [k \in 1..Len(G.agents) |-> Len(h) + k]
    IN  [heap   |-> h \o copies,
         raised |-> IF ViscekGroupInitRaises(h \o copies, ids, 2)
                    THEN "DimensionError" ELSE "none",
         group  |-> ViscekGroup(ids, G.dimension * Unit, 2)]

\* grp.copy() of viscek.py.  When the constructor raises, the copies of the
\* agents are garbage and no group is made.
ViscekCopy(g) ==
    LET r == ViscekGroupCopy(heap, groups[g])
    IN  /\ Idle
        /\ Len(groups) < MaxGroups
        /\ heap' = IF r.raised = "none" THEN r.heap ELSE heap
        /\ groups' = IF r.raised = "none" THEN Append(groups, r.group) ELSE groups
        /\ created' = IF r.raised = "none" THEN Append(created, Len(r.group.agents))
                      ELSE created
        /\ raised' = r.raised
        /\ lastop' = [NoOp EXCEPT !.op = "copy", !.src = g,
                                  !.dst = IF r.raised = "none" THEN Len(groups) + 1 ELSE 0]
        /\ query' = NoQuery
        /\ calls' = calls + 1
        /\ UNCHANGED <<pc, run, sweep>>

\* grp.add_agent(agent) of viscek.py, lines 135-139, agent being the new
\* object Len(heap) + 1 and its copy in the list Len(heap) + 2: the count
\* grows, the density is left as it was.
ViscekAddAgent(g, d, x) ==
    LET G   == groups[g]
        arg == ViscekGenerated(InDims(d, x[1], x[2]))
        bad == Len(arg.position) # G.dimension \/ Len(arg.speed) # G.dimension
    IN  /\ Idle
        /\ created[g] < MaxAgents
        /\ heap' = IF bad THEN Append(heap, arg)
                   ELSE heap \o << arg, ViscekAgentCopy(arg) >>
        /\ groups' = IF bad THEN groups
                     ELSE [groups EXCEPT ![g].agents = Append(@, Len(heap) + 2),
                                         ![g].nb_agents = @ + 1]
        /\ created' = IF bad THEN created ELSE [created EXCEPT ![g] = @ + 1]
        /\ raised' = IF bad THEN "DimensionError" ELSE "none"
        /\ lastop' = [NoOp EXCEPT !.op = "add_agent", !.g = g, !.arg = Len(heap) + 1]
        /\ query' = NoQuery
        /\ calls' = calls + 1
        /\ UNCHANGED <<pc, run, sweep>>

\* The calls made on the groups of viscek.py.
NextViscek ==
    \/ \E g \in 1..Len(groups), d \in {DrawEast, DrawWest, DrawPeer}, x \in AgentDims :
          ViscekAddAgent(g, d, x)
    \/ \E g \in 1..Len(groups) : ViscekCopy(g)

\* group_generator(nb, ..., length, dim) of viscek.py, lines 266-298.
InitViscek ==
    \E c \in GenChoices, length \in Lengths :
      \E draws \in CallsDrawLists(c[1], c[2]) :
        /\ heap = [k \in 1..c[1] |-> ViscekGenerated(InDim(draws[k], c[2]))]
        /\ groups = << ViscekGroup([k \in 1..c[1] |-> k], length, c[2]) >>
        /\ pc = "idle"
        /\ run = NoRun
        /\ raised = "none"
        /\ created = << c[1] >>
        /\ calls = 0
        /\ query = NoQuery
        /\ sweep = NoSweep
        /\ lastop = NoOp

SpecViscek == InitViscek /\ [][NextViscek]_vars

\* ---------------------------------------------------------------- claims

Range(s) == {s[k] : k \in 1..Len(s)}

Count(s, x) == Cardinality({k \in 1..Len(s) : s[k] = x})

\* A heading of norm 1, to the resolution of the fixed point.
UnitVector(v) == ~IsNaN(v) /\ Abs(Norm2(v) - Unit * Unit) <= 2 * Unit

\* What a group is to its user: its agents and dead agents with their
\* attributes, the objects its list holds, its count and its density.
GroupState(h, gs, g) ==
    [agents  |-> [k \in 1..Len(gs[g].agents) |-> h[gs[g].agents[k]]],
     ids     |-> gs[g].agents,
     dead    |-> [k \in 1..Len(gs[g].dead_agents) |-> h[gs[g].dead_agents[k]]],
     nb      |-> gs[g].nb_agents,
     density |-> gs[g].density]

\* The attributes a copy is to share with its original.
SameAttributes(a, b) ==
    /\ a.position = b.position
    /\ a.speed = b.speed
    /\ a.velocity = b.velocity
    /\ a.noise = b.noise
    /\ a.sight = b.sight
    /\ a.field_sight = b.field_sight
    /\ a.fear = b.fear
    /\ a.agent_type = b.agent_type

\* C1: when get_neighbours returns for a predator target, every agent of
\* the list that is neither predator nor wall and is closer to the target
\* than length / 25 is out of agents and has its snapshot in dead_agents,
\* in either field-of-view mode and in 2D and 3D.
C1_PredatorKillsNearbyPrey ==
    (query.valid /\ query.predator) =>
        \A id \in query.due :
            id \notin Range(query.after) /\ id \in Range(query.victims)

\* C2: in every group, len(dead_agents) + len(agents) is the number of
\* agents given at construction plus the successful add_agent calls.
C2_LedgerCount ==
    \A g \in 1..Len(groups) :
        Len(groups[g].dead_agents) + Len(groups[g].agents) = created[g]

\* C2's case: a scan that recorded two victims, in a group that was given
\* an agent by add_agent.
C2_Witness ==
    \E g \in 1..Len(groups) :
        /\ Len(groups[g].dead_agents) >= 2
        /\ created[g] > Len(GenDraws)
        /\ Len(groups[g].agents) >= 1

\* C3: the agents one call of get_neighbours removes from the list are
\* exactly the victims whose snapshots it appended to dead_agents.
C3_RemovedAreTheVictims ==
    query.valid =>
        /\ Range(query.before) \ Range(query.after) = Range(query.victims)
        /\ Len(query.snapshots) = Len(query.victims)

\* C4: when a sweep ends, every agent in agents that is no wall has taken
\* its step exactly once in that sweep, in the order of the collection.
C4_EachAgentSteppedOnce ==
    (pc = "run" /\ run.it >= Len(groups[run.g].agents)) =>
        LET live == SelectSeq(groups[run.g].agents, LAMBDA id : heap[id].agent_type # 3)
        IN  /\ \A id \in Range(live) : Count(sweep.done, id) = 1
            /\ SelectSeq(sweep.done, LAMBDA id : id \in Range(live)) = live

\* C5: in every reachable state, density = len(agents) / length ** dimension.
C5_DensityFormula ==
    \A g \in 1..Len(groups) :
        groups[g].density = Density(Len(groups[g].agents), groups[g].length,
                                    groups[g].dimension)

\* C6: after every next_step, the agent's heading is a vector of norm 1.
C6_HeadingIsUnit ==
    (query.valid /\ raised = "none") => UnitVector(heap[query.target].speed)

\* C7: within a sweep the update is sequential and in place: the neighbours
\* handed to next_step carry the new values of the agents processed earlier
\* in the sweep and the values of the previous sweep for the others, and so
\* do the agents of the list.
C7_SequentialInPlace ==
    (pc = "run" /\ sweep.done # << >>) =>
        LET earlier == Range(SubSeq(sweep.done, 1, Len(sweep.done) - 1))
        IN  /\ \A k \in 1..Len(sweep.seen) :
                 sweep.seen[k].ref # 0 =>
                    sweep.seen[k].a = IF sweep.seen[k].ref \in earlier
                                      THEN sweep.upd[sweep.seen[k].ref]
                                      ELSE sweep.start[sweep.seen[k].ref]
            /\ \A id \in Range(groups[run.g].agents) :
                 heap[id] = IF id \in Range(sweep.done) THEN sweep.upd[id]
                            ELSE sweep.start[id]

\* C7's case: the agent taking its step was handed a neighbour that had
\* taken its own step earlier in the sweep and had been changed by it.
C7_Witness ==
    /\ pc = "run"
    /\ Len(sweep.done) >= 2
    /\ \E k \in 1..Len(sweep.seen) :
          /\ sweep.seen[k].ref \in Range(SubSeq(sweep.done, 1, Len(sweep.done) - 1))
          /\ sweep.upd[sweep.seen[k].ref] # sweep.start[sweep.seen[k].ref]

\* C8: a step of run, an attribute assignment, an add_agent or a removal by
\* predation on one group leaves every other group (its original, its
\* copies, the other copies of its original) as it was.
C8_CopiesAreIndependent ==
    [][\A g \in 1..Len(groups) :
          g # lastop'.g => GroupState(heap', groups', g) = GroupState(heap, groups, g)]_vars

\* C8's case: of three groups, an original and two copies, the first copy
\* is running and an agent of it has been changed by its step.
C8_Witness ==
    /\ Len(groups) = 3
    /\ pc = "run"
    /\ run.g = 2
    /\ \E id \in Range(sweep.done) : sweep.upd[id] # sweep.start[id]

\* C9: right after copy() the copy holds as many agents as the original,
\* in the same order, each with the attributes of the original's; and the
\* agent add_agent stores has the attributes of the agent it was given.
C9_CopyHasSameAttributes ==
    /\ lastop.op = "copy" =>
         /\ Len(groups[lastop.dst].agents) = Len(groups[lastop.src].agents)
         /\ \A k \in 1..Len(groups[lastop.src].agents) :
               SameAttributes(heap[groups[lastop.dst].agents[k]],
                              heap[groups[lastop.src].agents[k]])
    /\ lastop.op = "add_agent" => SameAttributes(heap[lastop.stored], heap[lastop.arg])

\* C10: no step changes an agent's max_velocity, and the agents made by
\* Group.copy and add_agent have the max_velocity of the agent copied.
C10_MaxVelocityFixed ==
    [][/\ \A id \in 1..Len(heap) : heap'[id].max_velocity = heap[id].max_velocity
       /\ lastop'.op = "copy" =>
            \A k \in 1..Len(groups[lastop'.src].agents) :
               heap'[groups'[lastop'.dst].agents[k]].max_velocity
                   = heap[groups[lastop'.src].agents[k]].max_velocity
       /\ lastop'.op = "add_agent" =>
            heap'[lastop'.stored].max_velocity = heap'[lastop'.arg].max_velocity]_vars

\* The velocity accumulator of the interaction rule for a target of kind
\* kind: the velocities of the neighbours that are no wall, and for a
\* predator a quarter of the velocity of each normal agent and leader.
C11_Accumulated(kind, seen) ==
    SumSeq([k \in 1..Len(seen) |->
               (IF seen[k].a.agent_type = 3 THEN 0 ELSE seen[k].a.velocity)
               + (IF kind = 1 /\ seen[k].a.agent_type \in {0, 2}
                  THEN Quot(seen[k].a.velocity, 4) ELSE 0)])

C11_Averaged(kind, seen) ==
    Quot(C11_Accumulated(kind, seen),
         Cardinality({k \in 1..Len(seen) : seen[k].a.agent_type # 3}))

\* C11: every agent has 0 <= velocity <= max_velocity, and the velocity a
\* step leaves is the averaged velocity of the neighbours when that is at
\* most max_velocity, and max_velocity otherwise.
C11_VelocityBounded ==
    /\ \A id \in 1..Len(heap) :
          0 <= heap[id].velocity /\ heap[id].velocity <= heap[id].max_velocity
    /\ (pc = "run" /\ query.valid /\ raised = "none") =>
          LET t   == heap[query.target]
              avg == C11_Averaged(t.agent_type, sweep.seen)
          IN  t.velocity = IF avg <= t.max_velocity THEN avg ELSE t.max_velocity

\* C11's case: a step whose averaged velocity was above max_velocity.
C11_Witness ==
    /\ pc = "run"
    /\ query.valid
    /\ raised = "none"
    /\ C11_Averaged(heap[query.target].agent_type, sweep.seen)
          > heap[query.target].max_velocity

\* C12: the list get_neighbours returns holds the target itself, whatever
\* the field-of-view mode, the wall mode and the dimension, so next_step is
\* handed at least one neighbour that is no wall.
C12_TargetIsItsOwnNeighbour ==
    query.valid =>
        /\ query.target \in Range(query.out)
        /\ \E k \in 1..Len(query.out) : query.out[k] # 0

\* C13: a step whose neighbours hold no agent other than walls raises
\* nothing and leaves the agent's position, heading and velocity as they
\* were.
C13_NoNeighbourNoUpdate ==
    [][(query'.valid /\ \A k \in 1..Len(query'.out) : query'.out[k] = 0) =>
          /\ raised' = "none"
          /\ heap'[query'.target] = heap[query'.target]]_vars

\* The total of the velocities of the agents of group g.
TotalVelocity(g) ==
    SumSeq([k \in 1..Len(groups[g].agents) |-> heap[groups[g].agents[k]].velocity])

\* C14: order_parameter() of a group whose agents' velocities sum to zero
\* (no agent, or agents of velocity 0 only) returns 0 and raises nothing.
C14_ZeroSpeedOrderIsZero ==
    (lastop.op = "order_parameter" /\ TotalVelocity(lastop.g) = 0) =>
        raised = "none" /\ lastop.value = 0

\* The norm of the sum of the velocity vectors (velocity times heading) of
\* the agents of group g, over the sum of their velocities.
C15_Alignment(g) ==
    LET s == OrderSums(heap, groups[g], Len(groups[g].agents)).speed
    IN  IF IsNaN(s) THEN NaN ELSE Quot(norm(s) * Unit, 10 * TotalVelocity(g))

C15_SameHeadings(g) ==
    \A j, k \in 1..Len(groups[g].agents) :
        heap[groups[g].agents[j]].speed = heap[groups[g].agents[k]].speed

\* C15: for a group whose velocities do not sum to zero, order_parameter()
\* is the norm of the sum of the agents' velocity vectors over the sum of
\* their velocities (to the resolution of the fixed point), lies in [0, 1],
\* and is 1 when all the headings are equal.
C15_OrderParameterValue ==
    (lastop.op = "order_parameter" /\ TotalVelocity(lastop.g) # 0) =>
        /\ raised = "none"
        /\ lastop.value # NaN
        /\ 0 <= lastop.value /\ lastop.value <= Unit
        /\ C15_Alignment(lastop.g) # NaN
        /\ Abs(lastop.value - C15_Alignment(lastop.g)) <= 2
        /\ C15_SameHeadings(lastop.g) => lastop.value >= Unit - 1

\* C16: order_parameter() of a group holding a single agent is 1, before
\* and after steps of run, whatever the agent's noise.
C16_SingleAgentOrderIsOne ==
    (lastop.op = "order_parameter" /\ Len(groups[lastop.g].agents) = 1) =>
        raised = "none" /\ lastop.value = Unit

\* Where a coordinate p computed by the position update lies on the torus
\* of side length: past +length/2 by e it is at -length/2 + e, past
\* -length/2 by e at +length/2 - e, and within the two it is p.
C17_OnTorus(p, length) ==
    LET half == Quot(length, 2)
    IN  IF p > half THEN -half + (p - half)
        ELSE IF p < -half THEN half - (-half - p)
        ELSE p

\* C17: the position a step leaves is the position computed from the
\* heading and the velocity held before the step, each coordinate brought
\* back onto the torus.
C17_ToroidalWrap ==
    (pc = "run" /\ query.valid /\ raised = "none") =>
        LET before == sweep.start[query.target]
            after  == heap[query.target]
        IN  (~IsNaN(before.speed) /\ ~IsNaN(before.position)) =>
               \A i \in 1..Len(before.position) :
                  after.position[i] =
                     C17_OnTorus(before.position[i]
                                   + Quot(before.velocity * run.step * before.speed[i],
                                          Unit * Unit),
                                 groups[run.g].length)

\* The angle between the heading of target and the direction from target
\* to agent, taken on the circle: between 0 and Pi.
C18_AngularDifference(target, agent) ==
    LET pos == VSub(agent.position, target.position)
        d   == Abs(Angle(target.speed[1], target.speed[2]) - Angle(pos[1], pos[2]))
    IN  IF d > Pi THEN TwoPi - d ELSE d

\* C18: in 2D with check_field, a normal agent or leader within the radius
\* of the target and not at its position is a neighbour exactly when the
\* angular difference is at most the target's field_sight (differences
\* within 30 of field_sight, the error of the fixed-point angles, are
\* left open).
C18_FieldOfView ==
    (pc = "run" /\ query.valid /\ raised = "none" /\ run.check_field
        /\ groups[run.g].dimension = 2) =>
        LET target == sweep.start[query.target]
        IN  ~IsNaN(target.speed) =>
              \A id \in Range(query.before) :
                 LET agent == heap[id]
                     d     == C18_AngularDifference(target, agent)
                 IN  (/\ id # query.target
                      /\ agent.agent_type \in {0, 2}
                      /\ ~IsNaN(agent.position)
                      /\ agent.position # target.position
                      /\ DistLe(target, agent, target.sight)) =>
                        /\ d <= target.field_sight - 30 => id \in Range(query.out)
                        /\ d >= target.field_sight + 30 => id \notin Range(query.out)

\* The point of the face of axis i and sign s nearest to p: p with its
\* coordinate i replaced by s * length / 2.
C19_FacePoint(p, i, s, length) ==
    [j \in 1..Len(p) |-> IF j = i THEN s * Quot(length, 2) ELSE p[j]]

\* C19: with check_wall the candidates of a query hold exactly one wall
\* agent per face of the domain (4 in 2D, 6 in 3D), at the point of the
\* face nearest to the target; without check_wall they hold none.
C19_OneWallPerFace ==
    (pc = "run" /\ query.valid /\ raised = "none") =>
        LET p   == sweep.start[query.target].position
            G   == groups[run.g]
        IN  IF query.check_wall
            THEN /\ Len(query.walls) = 2 * G.dimension
                 /\ \A i \in 1..G.dimension, s \in {-1, 1} :
                       Count(query.walls, C19_FacePoint(p, i, s, G.length)) = 1
            ELSE query.walls = << >>

\* The dimension test of the specification on the arguments of a call: dim
\* is 2 or 3 and every agent has a position and a heading of dim coordinates.
C20_Matching(dim, dims) ==
    /\ dim \in {2, 3}
    /\ \A k \in 1..Len(dims) : dims[k][1] = dim /\ dims[k][2] = dim

\* C20: Group(agents, length, dim) and add_agent(agent) raise
\* DimensionError exactly when dim is outside {2, 3} or the position or the
\* heading of an agent has not dim coordinates.
C20_DimensionError ==
    lastop.call \in {"Group", "add_agent"} =>
        (raised = "DimensionError" <=> ~C20_Matching(lastop.dim, lastop.dims))

\* A construction in dimension 2 or 3 was refused for an agent whose
\* position has the dimension of the group and whose heading has not.
C20_Witness ==
    /\ lastop.call = "Group"
    /\ raised = "DimensionError"
    /\ lastop.dim \in {2, 3}
    /\ \A k \in 1..Len(lastop.dims) : lastop.dims[k][1] = lastop.dim

\* The objects no group holds in its list: the agents handed to add_agent,
\* the snapshots of the dead and the agents taken out of a list.
C21_Outside(i) == \A g \in 1..Len(groups) : i \notin Range(groups[g].agents)

\* C21: a successful add_agent keeps the agents of the list, in their
\* order, and appends one new object that is not the argument; a change of
\* the argument afterwards changes no group, a step of run changes no
\* object outside the lists, and a refused add_agent changes nothing.
C21_AddAgentFrame ==
    [][/\ lastop'.op = "add_agent" =>
            LET old == groups[lastop'.g].agents
                new == groups'[lastop'.g].agents
            IN  /\ Len(new) = Len(old) + 1
                /\ SubSeq(new, 1, Len(old)) = old
                /\ \A k \in 1..Len(old) : heap'[old[k]] = heap[old[k]]
                /\ new[Len(new)] \notin 1..Len(heap)
                /\ new[Len(new)] # lastop'.arg
                /\ \A g \in 1..Len(groups) :
                      g # lastop'.g => GroupState(heap', groups', g)
                                           = GroupState(heap, groups, g)
       /\ lastop'.op = "assign_argument" =>
            \A g \in 1..Len(groups) :
               GroupState(heap', groups', g) = GroupState(heap, groups, g)
       /\ pc = "run" =>
            \A i \in 1..Len(heap) : C21_Outside(i) => heap'[i] = heap[i]
       /\ (lastop'.call = "add_agent" /\ raised' = "DimensionError") =>
            /\ Len(groups') = Len(groups)
            /\ \A g \in 1..Len(groups) :
                  /\ GroupState(heap', groups', g) = GroupState(heap, groups, g)
                  /\ groups'[g].nb_agents = groups[g].nb_agents
                  /\ groups'[g].density = groups[g].density]_vars

\* The argument of an add_agent was changed and the group then ran.
C21_Witness ==
    /\ pc = "run"
    /\ query.valid
    /\ \E i \in 1..Len(heap) :
          /\ C21_Outside(i)
          /\ heap[i].noise = 150
          /\ \E k \in 1..Len(groups[run.g].agents) :
                heap[groups[run.g].agents[k]].agent_type = heap[i].agent_type

\* The target of the step just taken has noise 0, is among its neighbours,
\* and its neighbours are all Normal agents with its heading.
C22_Aligned ==
    /\ pc = "run"
    /\ query'.valid /\ raised' = "none"
    /\ heap[query'.target].noise = 0
    /\ ~IsNaN(heap[query'.target].speed)
    /\ ~IsNaN(heap[query'.target].position)
    /\ \E k \in 1..Len(sweep'.seen) : sweep'.seen[k].ref = query'.target
    /\ \A k \in 1..Len(sweep'.seen) :
          /\ sweep'.seen[k].a.agent_type = 0
          /\ sweep'.seen[k].a.speed = heap[query'.target].speed

\* position + (speed before the step) x dt x h.
C22_Advanced(a, step) ==
    [i \in 1..Len(a.position) |->
        a.position[i] + Quot(a.velocity * step * a.speed[i], Unit * Unit)]

C22_Inside(p, length) ==
    \A i \in 1..Len(p) : Abs(p[i]) <= (length \div (2 * Unit)) * Unit

C23_OneRowPerAgent ==
    /\ \A g \in 1..Len(groups) : groups[g].nb_agents = Len(groups[g].agents)
    /\ lastop.op = "get_agents_arguments" =>
          LET agents == groups[lastop.g].agents
          IN  /\ raised = "none"
              /\ Len(lastop.rows[1]) = Len(agents)
              /\ Len(lastop.rows[2]) = Len(agents)
              /\ \A i \in 1..Len(agents) :
                    /\ lastop.rows[1][i] = heap[agents[i]].position
                    /\ IsNaN(heap[agents[i]].speed) => IsNaN(lastop.rows[2][i])
                    /\ ~IsNaN(heap[agents[i]].speed) =>
                          lastop.rows[2][i]
                             = [j \in 1..Len(heap[agents[i]].speed) |->
                                   heap[agents[i]].velocity * heap[agents[i]].speed[j]]

\* The arrays were read from a group that lost an agent to predation and
\* still holds one.
C23_Witness ==
    /\ lastop.op = "get_agents_arguments"
    /\ groups[lastop.g].dead_agents # << >>
    /\ groups[lastop.g].agents # << >>

\* The objects of kind 1 (predators) in the list of group g.
C24_Predators(h, gs, g) ==
    {gs[g].agents[k] : k \in {j \in 1..Len(gs[g].agents) :
                                 h[gs[g].agents[j]].agent_type = 1}}

\* C24: no step takes a predator out of the list of a group, and
\* dead_agents holds neither a predator nor a wall agent.
C24_PredatorsStay ==
    [][\A g \in 1..Len(groups) :
          /\ C24_Predators(heap, groups, g) \subseteq C24_Predators(heap', groups', g)
          /\ \A k \in 1..Len(groups'[g].dead_agents) :
                heap'[groups'[g].dead_agents[k]].agent_type \in {0, 2}]_vars

\* A query with check_field in two dimensions was just made by run.
C25_FieldQuery ==
    /\ pc = "run"
    /\ query'.valid /\ raised' = "none"
    /\ run.check_field
    /\ groups[run.g].dimension = 2

\* Every predator of the list within the sight of the target is among the
\* neighbours returned.
C25_PredatorsKept ==
    \A k \in 1..Len(groups[run.g].agents) :
        LET a == heap[groups[run.g].agents[k]]
        IN  (a.agent_type = 1 /\ DistLe(heap[query'.target], a, heap[query'.target].sight))
               => groups[run.g].agents[k] \in Range(query'.out)

\* Every wall agent within the sight of the target is among the
\* neighbours returned.
C25_WallsKept ==
    \A k \in 1..Len(query'.walls) :
        DistLe(heap[query'.target], WallAgent(query'.walls[k]), heap[query'.target].sight)
           => \E j \in 1..Len(sweep'.seen) :
                 /\ sweep'.seen[j].a.agent_type = 3
                 /\ sweep'.seen[j].a.position = query'.walls[k]

\* C25: with check_field in two dimensions, a predator or a wall agent
\* within the query radius of the target is a neighbour, whatever its
\* direction.
C25_AlwaysQualify ==
    [][C25_FieldQuery => (C25_PredatorsKept /\ C25_WallsKept)]_vars

\* The neighbours handed to next_step in the step just taken.
C26_Neighbours == [k \in 1..Len(sweep'.seen) |-> sweep'.seen[k].a]

\* The sum of the headings of the neighbours of kind `kind`.
RECURSIVE C26_Headings(_, _, _, _)
C26_Headings(neighbours, k, kind, dim) ==
    IF k = 0 THEN Zeros(dim)
    ELSE IF neighbours[k].agent_type = kind
         THEN VAdd(C26_Headings(neighbours, k - 1, kind, dim), neighbours[k].speed)
         ELSE C26_Headings(neighbours, k - 1, kind, dim)

\* The sum over the neighbours of kind `kind` of (position of self -
\* position of the neighbour).
RECURSIVE C26_Away(_, _, _, _)
C26_Away(self, neighbours, k, kind) ==
    IF k = 0 THEN Zeros(Len(self.position))
    ELSE IF neighbours[k].agent_type = kind
         THEN VAdd(C26_Away(self, neighbours, k - 1, kind),
                   VSub(self.position, neighbours[k].position))
         ELSE C26_Away(self, neighbours, k - 1, kind)

\* The weighted sum of the claim for the target self: headings of the
\* Normal neighbours, 5 x headings of the Leaders, fear x n x (self - p)
\* over the Predators and 100 x n x (self - wall) over the wall agents.
C26_WeightedSum(self, neighbours) ==
    LET n    == Len(neighbours)
        dim  == Len(self.position)
        flee == C26_Away(self, neighbours, n, 1)
    IN  VAdd(VAdd(C26_Headings(neighbours, n, 0, dim),
                  VTimes(5, C26_Headings(neighbours, n, 2, dim))),
             VAdd([i \in 1..dim |-> Quot(self.fear * n * flee[i], Unit)],
                  VTimes(100 * n, C26_Away(self, neighbours, n, 3))))

\* The number of neighbours that are no wall agents, and their speeds.
C26_Live(neighbours) == {k \in 1..Len(neighbours) : neighbours[k].agent_type # 3}

RECURSIVE C26_Speeds(_, _)
C26_Speeds(neighbours, k) ==
    IF k = 0 THEN 0
    ELSE C26_Speeds(neighbours, k - 1)
         + (IF neighbours[k].agent_type # 3 THEN neighbours[k].velocity ELSE 0)

\* C26: for a target that is no predator, the heading accumulator of
\* next_step is the weighted sum of the claim over the number of
\* neighbours that are no wall agents, and the averaged speed is the sum
\* of their speeds over that number.
C26_Accumulators ==
    [][(/\ pc = "run" /\ query'.valid /\ raised' = "none"
        /\ heap[query'.target].agent_type # 1
        /\ ~IsNaN(heap[query'.target].position))
       => \A neighbours \in {C26_Neighbours} :
            (\A k \in 1..Len(neighbours) :
                ~IsNaN(neighbours[k].position) /\ ~IsNaN(neighbours[k].speed))
            => \A self \in {heap[query'.target]} :
               \A avg \in {average_speed(self, neighbours)},
                  sum \in {C26_WeightedSum(self, neighbours)} :
                  /\ avg.nb = Cardinality(C26_Live(neighbours))
                  /\ MaxAbs(VSub(avg.sum, sum)) <= Len(neighbours)
                  /\ average_velocity(self, neighbours)
                        = Quot(C26_Speeds(neighbours, Len(neighbours)),
                               Cardinality(C26_Live(neighbours)))]_vars

\* A Normal agent took its step with a wall agent, a predator and a
\* Normal agent among its neighbours.
C26_Witness ==
    /\ pc = "run" /\ query.valid /\ raised = "none"
    /\ heap[query.target].agent_type = 0
    /\ \A kind \in {0, 1, 3} :
          \E k \in 1..Len(sweep.seen) : sweep.seen[k].a.agent_type = kind

\* C27: no step removes or reorders an entry of dead_agents or changes
\* the snapshot an entry holds, and no agent is recorded twice.
C27_AppendOnlyLedger ==
    [][\A g \in 1..Len(groups) :
          LET old == groups[g].dead_agents
              new == groups'[g].dead_agents
          IN  /\ Len(new) >= Len(old)
              /\ SubSeq(new, 1, Len(old)) = old
              /\ \A k \in 1..Len(old) : heap'[old[k]] = heap[old[k]]
              /\ \A i, j \in 1..Len(groups'[g].recorded) :
                    i # j => groups'[g].recorded[i] # groups'[g].recorded[j]]_vars

\* C28: after every step an agent takes in run, each coordinate of its
\* position is a number between -length / 2 and +length / 2.
C28_PositionInDomain ==
    [][(pc = "run" /\ query'.valid /\ raised' = "none") =>
          LET p == heap'[query'.target].position
          IN  \A i \in 1..Len(p) :
                 /\ p[i] # NaN
                 /\ 2 * Abs(p[i]) <= groups[run.g].length]_vars

\* The agent the iterator of run yields next, when it yields one.
C29_Yields == pc = "run" /\ run.it < Len(groups[run.g].agents)

C29_TargetRef == groups[run.g].agents[run.it + 1]

\* No wall agent is in the list of group g.
C29_NoWall(h, gs, g) ==
    \A k \in 1..Len(gs[g].agents) : h[gs[g].agents[k]].agent_type # 3

\* C29: get_neighbours called for a target that is not a predator leaves
\* the group (its list, count, dead_agents, density) and every agent as
\* they were, so that after the turn of run only the target, by its own
\* step, differs; and a list without wall agents has none after a turn of
\* run, whatever the target.
C29_QueryChangesNothing ==
    [][C29_Yields =>
         LET G      == groups[run.g]
             tid    == C29_TargetRef
             target == heap[tid]
             q      == get_neighbours(heap, heap, G, target, target.sight,
                                      run.check_field, run.check_wall)
         IN  /\ target.agent_type \notin {1, 3} =>
                   /\ q.group = G
                   /\ q.heap = heap
                   /\ q.raised = "none"
                   /\ groups' = groups
                   /\ GroupState(heap', groups', run.g).dead
                        = GroupState(heap, groups, run.g).dead
                   /\ Len(heap') = Len(heap)
                   /\ \A i \in 1..Len(heap) : i # tid => heap'[i] = heap[i]
             /\ C29_NoWall(heap, groups, run.g) => C29_NoWall(heap', groups', run.g)]_vars

\* A query with field of view and walls was made for a target that is no
\* predator, in a list of several agents, and a wall agent was among the
\* neighbours it returned.
C29_Witness ==
    /\ pc = "run"
    /\ raised = "none"
    /\ query.valid
    /\ ~query.predator
    /\ run.check_field
    /\ run.check_wall
    /\ groups[query.g].dimension = 2
    /\ Len(query.before) >= 2
    /\ query.walls # << >>
    /\ 0 \in Range(query.out)
    /\ C29_NoWall(heap, groups, query.g)

\* C30: a copy returned by grp.copy() has the length and the dimension of
\* its original and the density len(agents) / length ** dimension; its
\* dead_agents is empty, and the dead_agents of the original (the entries
\* and their attributes) are what they were before the call.
C30_CopyResetsLedger ==
    [][(lastop'.op = "copy" /\ raised' = "none") =>
          LET src == lastop'.src
              dst == lastop'.dst
          IN  /\ groups'[dst].length = groups[src].length
              /\ groups'[dst].dimension = groups[src].dimension
              /\ groups'[dst].density
                   = Density(Len(groups'[dst].agents), groups[src].length,
                             groups[src].dimension)
              /\ groups'[dst].dead_agents = << >>
              /\ groups'[src].dead_agents = groups[src].dead_agents
              /\ GroupState(heap', groups', src).dead
                   = GroupState(heap, groups, src).dead]_vars


====
